---- MODULE Spec2Model ----
(***************************************************************************)
(* A model of @bytware/logger (src/src/index.ts): the level filter, the    *)
(* line formatter with its cycle-safe serializer, and the Logger class     *)
(* with its context and child loggers.                                     *)
(*                                                                         *)
(* JavaScript values are records [t, s, n]: t is the typeof-like tag, s a   *)
(* string payload, n a number payload (an object's identity in the heap).   *)
(* Objects are functions from property names to values; a property that is  *)
(* absent is outside the DOMAIN, a property that is present with the value  *)
(* undefined is inside it.  Property order is the fixed order KeyOrder.     *)
(* Strings that the code transforms (LOG_LEVEL) are sequences of characters.*)
(***************************************************************************)
EXTENDS Integers, Sequences, FiniteSets, TLC

VARIABLES
    env,        \* process.env.LOG_LEVEL: [set, chars]
    now,        \* the system clock in local time, as new Date() reads it:
                \* [month, date, hours, minutes, seconds, ms], month from 0
    loggers,    \* the Logger instances, by creation order; loggers[i] is instance i's context
    lastSet,    \* per instance: the argument of its latest setUserId (Undefined before any)
    seenEnv,    \* LOG_LEVEL as it was at the latest earlier leveled call or logger
                \* creation (earlier than the operation in op)
    op,         \* the operation that has just run: its kind, receiver, arguments and
                \* outcome; kind "idle" once the caller has looked at the console mocks
    writes      \* what the console mocks recorded since they were last cleared:
                \* a sequence of [sink, line]

vars == <<env, now, loggers, lastSet, seenEnv, op, writes>>

\* ----------------------------------------------------------------- bounds

MaxLoggers == 3     \* Logger instances alive at once (the default logger and its descendants)
MaxObjs == 2        \* objects in the caller's data graph

\* ----------------------------------------------------------------- values

Undefined == [t |-> "undefined", s |-> "", n |-> 0]
Null == [t |-> "null", s |-> "", n |-> 0]
Str(x) == [t |-> "string", s |-> x, n |-> 0]
BigIntV == [t |-> "bigint", s |-> "10n", n |-> 10]
Ref(i) == [t |-> "object", s |-> "", n |-> i]
\* An Error: s is its stack ("" when it has none), n the number of its own
\* enumerable properties (message and stack are not enumerable).
ErrorV(stack, nkeys) == [t |-> "error", s |-> stack, n |-> nkeys]
ErrorMessage == "boom"

\* ToBoolean
Truthy(v) ==
    CASE v.t = "undefined" -> FALSE
      [] v.t = "null" -> FALSE
      [] v.t = "string" -> v.s # ""
      [] v.t = "bigint" -> v.n # 0
      [] OTHER -> TRUE

\* { ...a, ...b }
Spread(a, b) == [k \in DOMAIN a \cup DOMAIN b |-> IF k \in DOMAIN b THEN b[k] ELSE a[k]]

EmptyObj == [k \in {} |-> Undefined]

\* obj[k], undefined when the property is absent
Get(obj, k) == IF k \in DOMAIN obj THEN obj[k] ELSE Undefined

\* ------------------------------------------------------------ level filter

LogLevels == {"debug", "info", "warn", "error"}

Chars(name) ==
    CASE name = "debug" -> <<"d", "e", "b", "u", "g">>
      [] name = "info" -> <<"i", "n", "f", "o">>
      [] name = "warn" -> <<"w", "a", "r", "n">>
      [] name = "error" -> <<"e", "r", "r", "o", "r">>
      [] name = "ERROR" -> <<"E", "R", "R", "O", "R">>
      [] name = "Warn" -> <<"W", "a", "r", "n">>
      [] name = "verbose" -> <<"v", "e", "r", "b", "o", "s", "e">>
      [] name = "constructor" -> <<"c", "o", "n", "s", "t", "r", "u", "c", "t", "o", "r">>
      [] OTHER -> <<>>

UpperCase == <<"A", "B", "C", "D", "E", "F", "G", "H", "I", "J", "K", "L", "M",
               "N", "O", "P", "Q", "R", "S", "T", "U", "V", "W", "X", "Y", "Z">>
LowerCase == <<"a", "b", "c", "d", "e", "f", "g", "h", "i", "j", "k", "l", "m",
               "n", "o", "p", "q", "r", "s", "t", "u", "v", "w", "x", "y", "z">>

\* String.prototype.toLowerCase
toLowerCase(s) ==
    [i \in 1..Len(s) |->
        IF \E j \in 1..Len(UpperCase) : UpperCase[j] = s[i]
        THEN LowerCase[CHOOSE j \in 1..Len(UpperCase) : UpperCase[j] = s[i]]
        ELSE s[i]]

Unset == [set |-> FALSE, chars |-> <<>>]
EnvOf(name) == [set |-> TRUE, chars |-> Chars(name)]

\* LEVEL_VALUES[key]: an own property gives its number; a name the object
\* inherits from Object.prototype gives that inherited member; anything else
\* gives undefined.
LEVEL_VALUES(key) ==
    CASE key = Chars("debug") -> [t |-> "number", s |-> "", n |-> 0]
      [] key = Chars("info") -> [t |-> "number", s |-> "", n |-> 1]
      [] key = Chars("warn") -> [t |-> "number", s |-> "", n |-> 2]
      [] key = Chars("error") -> [t |-> "number", s |-> "", n |-> 3]
      [] key = Chars("constructor") -> [t |-> "function", s |-> "Object", n |-> 0]
      [] OTHER -> Undefined

\* a >= b on two values: a non-number operand converts to NaN and the
\* comparison is false.
GreaterEq(a, b) == a.t = "number" /\ b.t = "number" /\ a.n >= b.n

\* (process.env.LOG_LEVEL || 'info').toLowerCase(), kept when LEVEL_VALUES has it
getLogLevel_stale ==
    LET raw == IF seenEnv.set /\ seenEnv.chars # <<>> THEN seenEnv.chars ELSE Chars("info")
        level == toLowerCase(raw)
    IN  IF LEVEL_VALUES(level) # Undefined THEN level ELSE Chars("info")

getLogLevel ==
    LET raw == IF env.set /\ env.chars # <<>> THEN env.chars ELSE Chars("info")
        level == toLowerCase(raw)
    IN  IF LEVEL_VALUES(level) # Undefined THEN level ELSE Chars("info")

shouldLog_strict(level) ==
    LET configuredLevel == getLogLevel
    IN  LEVEL_VALUES(Chars(level)).n > LEVEL_VALUES(configuredLevel).n

shouldLog(level) ==
    LET configuredLevel == getLogLevel
    IN  GreaterEq(LEVEL_VALUES(Chars(level)), LEVEL_VALUES(configuredLevel))

\* -------------------------------------------------------------- serializer

CtxId == MaxObjs + 1    \* the context object the formatter builds
RootId == MaxObjs + 2   \* the errorData object the formatter builds

KeyOrder == <<"module", "userId", "key", "self", "other", "error", "code", "context">>
NL == "\n"
Circular == "[Circular]"

\* Object.keys(v): the own enumerable property names
ObjectKeys(heap, v) ==
    CASE v.t = "object" -> DOMAIN heap[v.n]
      [] v.t = "error" -> IF v.n > 0 THEN {"code"} ELSE {}
      [] OTHER -> {}

\* The own enumerable properties of v as an object ({ ...v })
Props(heap, v) ==
    CASE v.t = "object" -> heap[v.n]
      [] v.t = "error" -> IF v.n > 0 THEN [k \in {"code"} |-> Str("E_CODE")] ELSE EmptyObj
      [] OTHER -> EmptyObj

\* The replacer of formatDebugObject: an object already in `seen` becomes
\* the string '[Circular]', any other object is added to `seen`.  (An Error
\* value is an object too; each Error of the model is met once, so adding it
\* to `seen` changes nothing and is left out.)
Replacer_noseen(value, seen) == [value |-> value, seen |-> seen]

Replacer(value, seen) ==
    IF value.t = "object"
    THEN IF value.n \in seen
         THEN [value |-> Str(Circular), seen |-> seen]
         ELSE [value |-> value, seen |-> seen \cup {value.n}]
    ELSE [value |-> value, seen |-> seen]

RECURSIVE SerializeJSONProperty(_, _, _, _)
RECURSIVE SerializeJSONMembers(_, _, _, _, _)

\* JSON.stringify's SerializeJSONProperty after the holder lookup: the
\* replacer is applied, then the value is rendered by type.  `stack` is the
\* serializer's own list of the objects being rendered, which makes it throw
\* on a cycle the replacer let through.  The result is [threw, err, undef,
\* out, seen]: undef says the property is left out.
SerializeJSONProperty(heap, value0, seen0, stack) ==
    LET r == Replacer(value0, seen0)
        value == r.value
        seen == r.seen
        plain(toks) == [threw |-> FALSE, err |-> "", undef |-> FALSE, out |-> toks, seen |-> seen]
    IN  CASE value.t = "undefined" ->
                [threw |-> FALSE, err |-> "", undef |-> TRUE, out |-> <<>>, seen |-> seen]
          [] value.t = "null" -> plain(<<"null">>)
          [] value.t = "string" -> plain(<<value.s>>)
          [] value.t = "bigint" ->
                [threw |-> TRUE, err |-> "TypeError: Do not know how to serialize a BigInt",
                 undef |-> FALSE, out |-> <<>>, seen |-> seen]
          [] value.t = "error" ->
                plain(IF value.n > 0 THEN <<"{", "code", "E_CODE", "}">> ELSE <<"{", "}">>)
          [] value.t = "object" ->
                IF value.n \in stack
                THEN [threw |-> TRUE, err |-> "TypeError: Converting circular structure to JSON",
                      undef |-> FALSE, out |-> <<>>, seen |-> seen]
                ELSE LET m == SerializeJSONMembers(heap, value.n, KeyOrder, seen,
                                                   stack \cup {value.n})
                     IN  [threw |-> m.threw, err |-> m.err, undef |-> FALSE,
                          out |-> <<"{">> \o m.out \o <<"}">>, seen |-> m.seen]

\* The members of object id, in property order, `seen` threaded through them.
SerializeJSONMembers(heap, id, ks, seen, stack) ==
    IF ks = <<>>
    THEN [threw |-> FALSE, err |-> "", out |-> <<>>, seen |-> seen]
    ELSE LET k == Head(ks)
         IN  IF k \notin DOMAIN heap[id]
             THEN SerializeJSONMembers(heap, id, Tail(ks), seen, stack)
             ELSE LET p == SerializeJSONProperty(heap, heap[id][k], seen, stack)
                  IN  IF p.threw
                      THEN [threw |-> TRUE, err |-> p.err, out |-> <<>>, seen |-> p.seen]
                      ELSE LET rest == SerializeJSONMembers(heap, id, Tail(ks), p.seen, stack)
                           IN  [threw |-> rest.threw, err |-> rest.err,
                                out |-> (IF p.undef THEN <<>> ELSE <<k>> \o p.out) \o rest.out,
                                seen |-> rest.seen]

\* JSON.stringify(obj, replacer, 2) with a fresh `seen`
JSONstringify(heap, obj) == SerializeJSONProperty(heap, obj, {}, {})

\* obj.stack || obj.message
StackOrMessage(e) == IF e.s # "" THEN e.s ELSE ErrorMessage

Unable == "[Unable to stringify object: "

formatDebugObject_nocatch(heap, obj) ==
    IF ~Truthy(obj) \/ ObjectKeys(heap, obj) = {}
    THEN [threw |-> FALSE, out |-> <<>>]
    ELSE IF obj.t = "error"
    THEN [threw |-> FALSE, out |-> <<NL, StackOrMessage(obj)>>]
    ELSE IF Get(Props(heap, obj), "error").t = "error"
    THEN [threw |-> FALSE, out |-> <<NL, StackOrMessage(Get(Props(heap, obj), "error"))>>]
    ELSE LET r == JSONstringify(heap, obj)
         IN  [threw |-> r.threw, out |-> <<NL>> \o r.out]

\* formatDebugObject: '' for a falsy value or one with no own enumerable
\* keys; inside the try, an Error's stack, the stack of obj.error, or the
\* JSON text; the catch turns a throw into the bracketed diagnostic.
formatDebugObject(heap, obj) ==
    IF ~Truthy(obj) \/ ObjectKeys(heap, obj) = {}
    THEN [threw |-> FALSE, out |-> <<>>]
    ELSE IF obj.t = "error"
    THEN [threw |-> FALSE, out |-> <<NL, StackOrMessage(obj)>>]
    ELSE IF Get(Props(heap, obj), "error").t = "error"
    THEN [threw |-> FALSE, out |-> <<NL, StackOrMessage(Get(Props(heap, obj), "error"))>>]
    ELSE LET r == JSONstringify(heap, obj)
         IN  IF r.threw
             THEN [threw |-> FALSE, out |-> <<NL, Unable, r.err, "]">>]
             ELSE [threw |-> FALSE, out |-> <<NL>> \o r.out]

\* --------------------------------------------------------------- formatter

\* The heap with the formatter's own objects added
WithObj(heap, id, obj) == [i \in DOMAIN heap \cup {id} |-> IF i = id THEN obj ELSE heap[i]]

\* Number.prototype.toString for a natural number: its decimal digits
Digits == <<"0", "1", "2", "3", "4", "5", "6", "7", "8", "9">>

RECURSIVE toString(_)
toString(n) ==
    IF n < 10 THEN <<Digits[n + 1]>> ELSE toString(n \div 10) \o <<Digits[(n % 10) + 1]>>

\* String.prototype.padStart(targetLength, padString) with a one-character pad
RECURSIVE padStart(_, _, _)
padStart(s, targetLength, pad) ==
    IF Len(s) >= targetLength THEN s ELSE padStart(<<pad>> \o s, targetLength, pad)

\* formatTime without the colours: the characters of the bracketed stamp of
\* the clock's reading
formatTime ==
    LET day == padStart(toString(now.date), 2, "0")
        month == padStart(toString(now.month + 1), 2, "0")
        hours == padStart(toString(now.hours), 2, "0")
        minutes == padStart(toString(now.minutes), 2, "0")
        seconds == padStart(toString(now.seconds), 2, "0")
        ms == padStart(toString(now.ms), 3, "0")
    IN  <<"[">> \o month \o <<"/">> \o day \o <<" ">> \o hours \o <<":">> \o minutes
            \o <<":">> \o seconds \o <<".">> \o ms \o <<"]">>

\* formatLogMessage without the colours: the parts of the line, in order,
\* and whether rendering threw.
formatLogMessage(level, context, message, data, heap) ==
    LET module == IF Truthy(Get(context, "module")) THEN context["module"].s ELSE "app"
        userPart == IF Truthy(Get(context, "userId"))
                    THEN <<" [", context["userId"].s, "]">> ELSE <<>>
        contextData == [k \in DOMAIN context \ {"module"} |-> context[k]]
        ctxBlock == IF DOMAIN contextData # {}
                    THEN formatDebugObject(WithObj(heap, CtxId, contextData), Ref(CtxId))
                    ELSE [threw |-> FALSE, out |-> <<>>]
        dataBlock == IF Truthy(data) THEN formatDebugObject(heap, data)
                     ELSE [threw |-> FALSE, out |-> <<>>]
        errorCtx == Spread(context, [k \in {"module"} |-> Undefined])
        errorData == Spread(Props(heap, data), [k \in {"context"} |-> Ref(CtxId)])
        errBlock == formatDebugObject(
                        WithObj(WithObj(heap, CtxId, errorCtx), RootId, errorData),
                        Ref(RootId))
        debugData ==
            CASE level = "debug" ->
                    [threw |-> ctxBlock.threw \/ dataBlock.threw,
                     out |-> ctxBlock.out \o dataBlock.out]
              [] level = "error" -> errBlock
              [] OTHER -> dataBlock
    IN  [threw |-> debugData.threw,
         line |-> [timestamp |-> formatTime,
                   level |-> level, module |-> module, userPart |-> userPart,
                   message |-> message, payload |-> debugData.out]]

\* ------------------------------------------------------------ Logger class

Message == "msg"
NoHeap == [i \in 1..MaxObjs |-> EmptyObj]
NoOptions == EmptyObj

\* The switch of Logger.log: the console method a level is written with
ConsoleMethod(level) ==
    CASE level = "error" -> "console.error"
      [] level = "warn" -> "console.warn"
      [] level = "debug" -> "console.debug"
      [] OTHER -> "console.log"

\* Logger.log: what a leveled call on a logger with this context does:
\* nothing when the level is filtered out, else one write of the rendered
\* line; a throw of the formatter leaves the call with no write.
LogOutcome(level, context, data, heap) ==
    IF ~shouldLog(level)
    THEN [threw |-> FALSE, writes |-> <<>>]
    ELSE LET fm == formatLogMessage(level, context, Message, data, heap)
         IN  IF fm.threw
             THEN [threw |-> TRUE, writes |-> <<>>]
             ELSE [threw |-> FALSE,
                   writes |-> <<[sink |-> ConsoleMethod(level), line |-> fm.line]>>]

\* Logger.setUserId: this.context = { ...this.context, userId: userId || undefined }
setUserIdContext_keep(context, userId) ==
    IF Truthy(userId) THEN Spread(context, [k \in {"userId"} |-> userId]) ELSE context

setUserIdContext(context, userId) ==
    Spread(context, [k \in {"userId"} |-> IF Truthy(userId) THEN userId ELSE Undefined])

\* Logger.child: the new logger's context is { ...this.context, ...options };
\* this.context is left as it is.
childContexts_assign(context, options) ==
    [parent |-> Spread(context, options), child |-> Spread(context, options)]

childContexts_nomerge(context, options) ==
    [parent |-> context,
     child |-> [k \in {"module"} |-> IF "module" \in DOMAIN options THEN options["module"]
                                     ELSE Str("app")]]

childContexts_replace(context, options) ==
    [parent |-> context, child |-> options]

childContexts(context, options) ==
    [parent |-> context, child |-> Spread(context, options)]

OpRec(kind, i, level, data, heap, options, ret, threw) ==
    [kind |-> kind, logger |-> i, level |-> level, data |-> data, heap |-> heap,
     options |-> options, ret |-> ret, threw |-> threw]

\* logger.debug / info / warn / error (message, data)
Log(i, level, data, heap) ==
    /\ op.kind = "idle"
    /\ i \in 1..Len(loggers)
    /\ LET r == LogOutcome(level, loggers[i], data, heap)
       IN  /\ writes' = r.writes
           /\ op' = OpRec("log", i, level, data, heap, NoOptions, i, r.threw)
    /\ UNCHANGED <<env, now, loggers, lastSet, seenEnv>>

\* logger.setUserId(userId)
setUserId(i, userId) ==
    /\ op.kind = "idle"
    /\ i \in 1..Len(loggers)
    /\ loggers' = [loggers EXCEPT ![i] = setUserIdContext(@, userId)]
    /\ lastSet' = [lastSet EXCEPT ![i] = userId]
    /\ op' = OpRec("setUserId", i, "", userId, NoHeap, NoOptions, i, FALSE)
    /\ writes' = <<>>
    /\ UNCHANGED <<env, now, seenEnv>>

\* logger.child(options)
child(i, options) ==
    /\ op.kind = "idle"
    /\ i \in 1..Len(loggers)
    /\ Len(loggers) < MaxLoggers
    /\ LET c == childContexts(loggers[i], options)
       IN  loggers' = Append([loggers EXCEPT ![i] = c.parent], c.child)
    /\ lastSet' = Append(lastSet, Undefined)
    /\ op' = OpRec("child", i, "", Undefined, NoHeap, options, Len(loggers) + 1, FALSE)
    /\ writes' = <<>>
    /\ UNCHANGED <<env, now, seenEnv>>

\* process.env.LOG_LEVEL = v, or delete process.env.LOG_LEVEL
SetEnv(v) ==
    /\ op.kind = "idle"
    /\ v # env
    /\ env' = v
    /\ op' = OpRec("setEnv", 0, "", Undefined, NoHeap, NoOptions, 0, FALSE)
    /\ writes' = <<>>
    /\ UNCHANGED <<now, loggers, lastSet, seenEnv>>

\* The system clock moves to another reading between two calls
SetClock(d) ==
    /\ op.kind = "idle"
    /\ d # now
    /\ now' = d
    /\ op' = OpRec("setClock", 0, "", Undefined, NoHeap, NoOptions, 0, FALSE)
    /\ writes' = <<>>
    /\ UNCHANGED <<env, loggers, lastSet, seenEnv>>

\* The clock's reading when the module is loaded
StartTime == [month |-> 0, date |-> 1, hours |-> 0, minutes |-> 0, seconds |-> 0, ms |-> 0]

Idle == OpRec("idle", 0, "", Undefined, NoHeap, NoOptions, 0, FALSE)

\* The caller has read what the operation returned and what the console
\* mocks recorded, and clears the mocks (jest.clearAllMocks) before its next
\* operation.
clearAllMocks ==
    /\ op.kind # "idle"
    /\ op' = Idle
    /\ writes' = <<>>
    /\ seenEnv' = IF op.kind \in {"log", "child"} THEN env ELSE seenEnv
    /\ UNCHANGED <<env, now, loggers, lastSet>>

\* The state after the module is loaded: export default new Logger()
InitWith(envs) ==
    /\ env \in envs
    /\ now = StartTime
    /\ loggers = <<[k \in {"module"} |-> Str("app")]>>
    /\ lastSet = <<Undefined>>
    /\ seenEnv = env
    /\ op = Idle
    /\ writes = <<>>

\* ------------------------------------------------------------------ inputs

EnvValues == {Unset} \cup {EnvOf(n) : n \in {"", "debug", "info", "warn", "error",
                                              "ERROR", "verbose", "constructor"}}
FewEnvValues == {Unset, EnvOf("debug")}

UserIds == {Str("u1"), Null}
MoreUserIds == UserIds \cup {Str("")}

NoProp == [t |-> "absent", s |-> "", n |-> 0]
MkObj(f) == [k \in {x \in DOMAIN f : f[x] # NoProp} |-> f[k]]

\* child options: module missing, empty or "auth"; userId missing or "u1"
Options ==
    {MkObj([module |-> m, userId |-> u]) :
        m \in {NoProp, Str(""), Str("auth")}, u \in {NoProp, Str("u1")}}

\* the caller's data graphs: object 1 is the data argument
ObjIds == 1..MaxObjs
Errors == {ErrorV("stack", 0), ErrorV("", 0)}
FirstObjs ==
    {MkObj([key |-> a, self |-> b, other |-> c, error |-> d]) :
        a \in {NoProp, Str("value"), BigIntV},
        b \in {NoProp} \cup {Ref(j) : j \in ObjIds},
        c \in {NoProp} \cup {Ref(j) : j \in ObjIds},
        d \in {NoProp, ErrorV("stack", 0)}}
OtherObjs ==
    {MkObj([key |-> a, self |-> b]) :
        a \in {NoProp, BigIntV},
        b \in {NoProp} \cup {Ref(j) : j \in ObjIds}}
Heaps ==
    {[i \in ObjIds |-> IF i = 1 THEN o ELSE rest[i]] :
        o \in FirstObjs, rest \in [ObjIds \ {1} -> OtherObjs]}
ErrorData == Errors \cup {ErrorV("stack", 1)}

\* clock readings: first and last months and days, one- and two-digit
\* fields, days that are no month number, the ends of the day
Dates ==
    [month : {0, 1, 9, 11}, date : {1, 2, 10, 28}, hours : {0, 23},
     minutes : {0, 59}, seconds : {0, 59}, ms : {0, 7, 999}]

\* ---------------------------------------------------------- specifications

\* The caller makes its next call once it has looked at the last one.
Ready == op.kind = "idle"

\* Level filtering: every LOG_LEVEL value, loggers created at any time
NextLevels ==
    \/ Ready /\ \E i \in 1..MaxLoggers, level \in LogLevels : Log(i, level, Undefined, NoHeap)
    \/ Ready /\ \E v \in EnvValues : SetEnv(v)
    \/ Ready /\ \E i \in 1..MaxLoggers : child(i, [k \in {"module"} |-> Str("auth")])
    \/ clearAllMocks

SpecLevels == InitWith(EnvValues) /\ [][NextLevels]_vars

\* Contexts: setUserId and child in any order, on any logger; LOG_LEVEL is
\* what the process was started with
NextContext ==
    \/ Ready /\ \E i \in 1..MaxLoggers, level \in LogLevels : Log(i, level, Undefined, NoHeap)
    \/ Ready /\ \E i \in 1..MaxLoggers, u \in UserIds : setUserId(i, u)
    \/ Ready /\ \E i \in 1..MaxLoggers, o \in Options : child(i, o)
    \/ clearAllMocks

SpecContext == InitWith(FewEnvValues) /\ [][NextContext]_vars

\* Formatting: the default logger, every data graph
NextFormat ==
    \/ Ready /\ \E level \in LogLevels, h \in Heaps : Log(1, level, Ref(1), h)
    \/ Ready /\ \E level \in LogLevels, d \in ErrorData \cup {Undefined} :
                    Log(1, level, d, NoHeap)
    \/ Ready /\ \E u \in MoreUserIds : setUserId(1, u)
    \/ clearAllMocks

SpecFormat == InitWith(FewEnvValues) /\ [][NextFormat]_vars

\* Timestamps: the default logger, called at every clock reading
NextTime ==
    \/ Ready /\ \E level \in LogLevels : Log(1, level, Undefined, NoHeap)
    \/ Ready /\ \E d \in Dates : SetClock(d)
    \/ clearAllMocks

SpecTime == InitWith(FewEnvValues) /\ [][NextTime]_vars

\* ------------------------------------------------------------------ claims

\* The order debug < info < warn < error
Rank(level) ==
    CASE level = "debug" -> 1
      [] level = "info" -> 2
      [] level = "warn" -> 3
      [] level = "error" -> 4

\* The sink of a level
SinkOf(level) ==
    CASE level = "debug" -> "console.debug"
      [] level = "info" -> "console.log"
      [] level = "warn" -> "console.warn"
      [] level = "error" -> "console.error"

\* The levels a LOG_LEVEL value names once lower-cased (none or one)
Named(v) == {m \in LogLevels : v.set /\ toLowerCase(v.chars) = Chars(m)}

\* The minimum a LOG_LEVEL value stands for: the level it names, else info
MinimumOf(v) == IF Named(v) # {} THEN CHOOSE m \in Named(v) : TRUE ELSE "info"

\* C1: when LOG_LEVEL is one of the four level names M, a leveled call at
\* level L on any logger writes exactly one line, to the sink of L and to no
\* other, if L is at or above M in debug < info < warn < error, and writes
\* nothing if L is below M.
C1_LevelFilter ==
    \A m \in LogLevels :
        (op.kind = "log" /\ env = EnvOf(m)) =>
            IF Rank(op.level) >= Rank(m)
            THEN Len(writes) = 1 /\ writes[1].sink = SinkOf(op.level)
            ELSE writes = <<>>

C1_Witness ==
    /\ op.kind = "log" /\ op.logger > 1
    /\ env = EnvOf("warn") /\ op.level = "error"
    /\ Len(writes) = 1 /\ writes[1].sink = "console.error"

\* C2: the effective minimum is a total function of LOG_LEVEL: the level the
\* lower-cased value names, and info for every other value (absent, empty,
\* unrecognized text); so a leveled call is written exactly when its level
\* is at or above that minimum.
C2_EffectiveMinimum ==
    op.kind = "log" =>
        /\ ~op.threw
        /\ Len(writes) = 1 <=> Rank(op.level) >= Rank(MinimumOf(env))

\* What a leveled call at `level` does under the LOG_LEVEL value v: it passes
\* at or above the minimum v stands for; under a value that is no level name
\* but a name LEVEL_VALUES inherits, no level passes.
PassesAt(level, v) ==
    IF Named(v) = {} /\ v.set /\ LEVEL_VALUES(toLowerCase(v.chars)) # Undefined
    THEN FALSE
    ELSE Rank(level) >= Rank(MinimumOf(v))

\* C3: every leveled call, on the default logger or on a child, is filtered
\* by the value LOG_LEVEL has at that call, whatever LOG_LEVEL was at earlier
\* calls or when the logger was created.
C3_FreshLevel ==
    op.kind = "log" => (Len(writes) = 1 <=> PassesAt(op.level, env))

\* a child created and called under one value, called again under another
\* value that decides the other way
C3_Witness ==
    /\ op.kind = "log" /\ op.logger > 1
    /\ seenEnv # env
    /\ ~PassesAt(op.level, seenEnv) /\ PassesAt(op.level, env)
    /\ Len(writes) = 1

\* The user tag of a line: ' [id]'
UserTag(id) == <<" [", id, "]">>

\* C5: once setUserId(id) with a non-empty id has run on a logger, every
\* line that logger writes carries the user tag [id], and once
\* setUserId(null) has run on it, every line it writes carries no user tag
\* and no empty brackets, until its next setUserId; setUserId returns the
\* logger it was called on and writes nothing.
C5_UserTag ==
    /\ (op.kind = "log" /\ Len(writes) = 1) =>
            LET u == lastSet[op.logger]
                line == writes[1].line
            IN  /\ (u.t = "string" /\ u.s # "") => line.userPart = UserTag(u.s)
                /\ u.t = "null" => (line.userPart = <<>> /\ line.module # "")
    /\ op.kind = "setUserId" => (op.ret = op.logger /\ writes = <<>>)

\* a child that inherited a user id, cleared it, and then wrote a line
C5_Witness ==
    /\ op.kind = "log" /\ Len(writes) = 1 /\ op.logger > 1
    /\ lastSet[op.logger] = Null
    /\ Get(loggers[1], "userId") = Str("u1")
    /\ writes[1].line.userPart = <<>>

\* A line the logger with this context writes at this level
LineOf(level, context) == formatLogMessage(level, context, Message, Undefined, NoHeap).line

\* child(options) has just returned: the new logger's context is the
\* parent's overlaid with options
C6_Overlay ==
    LET parent == loggers[op.logger]
        new == loggers[op.ret]
    IN  /\ op.ret = Len(loggers) /\ op.ret # op.logger
        /\ DOMAIN new = DOMAIN parent \cup DOMAIN op.options
        /\ \A k \in DOMAIN op.options : new[k] = op.options[k]
        /\ \A k \in DOMAIN parent \ DOMAIN op.options : new[k] = parent[k]

\* C6 as claimed: the child's context is the parent's overlaid with options,
\* and a line the child writes shows [options.module] and, when the parent
\* had a user id that options does not replace, [parent userId].
C6_AsClaimed ==
    op.kind = "child" =>
        /\ C6_Overlay
        /\ \A level \in LogLevels :
            LET line == LineOf(level, loggers[op.ret])
                parent == loggers[op.logger]
            IN  /\ "module" \in DOMAIN op.options => line.module = op.options["module"].s
                /\ (Truthy(Get(parent, "userId")) /\ "userId" \notin DOMAIN op.options)
                        => line.userPart = UserTag(parent["userId"].s)

\* C6 amended: the child's context is the parent's overlaid with options; a
\* line the child writes shows [options.module] when options.module is a
\* non-empty string and [app] when it is the empty string, and, when the
\* parent had a user id that options does not replace, [parent userId].
C6_ChildContext ==
    op.kind = "child" =>
        /\ C6_Overlay
        /\ \A level \in LogLevels :
            LET line == LineOf(level, loggers[op.ret])
                parent == loggers[op.logger]
            IN  /\ "module" \in DOMAIN op.options =>
                        line.module = IF op.options["module"].s # ""
                                      THEN op.options["module"].s ELSE "app"
                /\ (Truthy(Get(parent, "userId")) /\ "userId" \notin DOMAIN op.options)
                        => line.userPart = UserTag(parent["userId"].s)

\* a child of a logger with a user id, made with a module only
C6_Witness ==
    /\ op.kind = "child"
    /\ op.options = [k \in {"module"} |-> Str("auth")]
    /\ Get(loggers[op.logger], "userId") = Str("u1")
    /\ LineOf("info", loggers[op.ret]).module = "auth"
    /\ LineOf("info", loggers[op.ret]).userPart = UserTag("u1")

\* C7: no operation changes the context of a logger other than the one
\* setUserId is called on: child() leaves every existing context, its
\* parent's included, as it was and writes nothing, and setUserId and
\* leveled calls on one logger leave the contexts of its parent, children
\* and siblings as they were.
C7_Independent ==
    [][/\ \A j \in 1..Len(loggers) :
            loggers'[j] # loggers[j] => (op'.kind = "setUserId" /\ op'.logger = j)
       /\ op'.kind = "child" => (writes' = <<>> /\ Len(loggers') = Len(loggers) + 1)
       /\ op'.kind # "child" => Len(loggers') = Len(loggers)]_vars

\* the default logger's user id set after two descendants were created,
\* which still have none
C7_Witness ==
    /\ Len(loggers) = 3
    /\ op.kind = "setUserId" /\ op.logger = 1
    /\ Get(loggers[1], "userId") = Str("u1")
    /\ "userId" \notin DOMAIN loggers[2]
    /\ "userId" \notin DOMAIN loggers[3]

\* -- the data graph of the latest call, read off the arguments alone

\* The objects object i refers to
Refs(heap, i) == {heap[i][k].n : k \in {x \in DOMAIN heap[i] : heap[i][x].t = "object"}}

RECURSIVE Closure(_, _)
Closure(heap, ids) ==
    LET more == ids \cup UNION {Refs(heap, i) : i \in ids}
    IN  IF more = ids THEN ids ELSE Closure(heap, more)

\* The objects of the graph of data
Reach(heap, data) == IF data.t = "object" THEN Closure(heap, {data.n}) ELSE {}

\* The references between the objects of the graph of data
Edges(heap, data) ==
    {<<i, k>> \in Reach(heap, data) \X {"self", "other"} :
        k \in DOMAIN heap[i] /\ heap[i][k].t = "object"}

\* data contains a cycle: some object of its graph reaches itself
Cyclic(heap, data) ==
    \E i \in Reach(heap, data) : i \in Closure(heap, Refs(heap, i))

\* data holds a value JSON.stringify rejects
Rejected(heap, data) == \E i \in Reach(heap, data) : Get(heap[i], "key") = BigIntV

\* data is an object with an Error under `error`
WrapsError(heap, data) == data.t = "object" /\ Get(heap[data.n], "error").t = "error"

\* data is an object with at least one property that is not an Error wrapper
PlainObject(heap, data) ==
    data.t = "object" /\ DOMAIN heap[data.n] # {} /\ ~WrapsError(heap, data)

\* how often a token occurs in a payload
Count(payload, tok) == Cardinality({i \in 1..Len(payload) : payload[i] = tok})

\* the payload ends with these tokens
EndsWith(payload, toks) ==
    /\ Len(payload) >= Len(toks)
    /\ SubSeq(payload, Len(payload) - Len(toks) + 1, Len(payload)) = toks

\* C4: no leveled call throws, whatever the level, the context and the data
\* (absent, empty, plain, cyclic, an Error, an Error under `error`, a value
\* the serializer rejects); an enabled call writes its line, and when the
\* serializer rejects the data the payload ends with the diagnostic
\* [Unable to stringify object: ...].
C4_NeverThrows ==
    op.kind = "log" =>
        /\ ~op.threw
        /\ PassesAt(op.level, env) => Len(writes) = 1
        /\ (Len(writes) = 1 /\ PlainObject(op.heap, op.data) /\ Rejected(op.heap, op.data))
                => EndsWith(writes[1].line.payload,
                            <<NL, Unable, "TypeError: Do not know how to serialize a BigInt", "]">>)

\* an error-level call with cyclic data that also holds a BigInt
C4_Witness ==
    /\ op.kind = "log" /\ op.level = "error" /\ Len(writes) = 1
    /\ Cyclic(op.heap, op.data) /\ Rejected(op.heap, op.data)
    /\ PlainObject(op.heap, op.data)
    /\ writes[1].line.payload[2] = Unable

\* C8: every error-level line carries a payload that shows the logger's
\* context (the user id with it), for data absent, a plain object, and an
\* object holding an Error under `error`.
C8_ErrorCarriesContext ==
    (/\ op.kind = "log" /\ op.level = "error" /\ Len(writes) = 1
     /\ \/ op.data = Undefined
        \/ op.data.t = "object" /\ ~Rejected(op.heap, op.data)) =>
        LET payload == writes[1].line.payload
            context == loggers[op.logger]
        IN  /\ Count(payload, "context") >= 1
            /\ Truthy(Get(context, "userId")) =>
                    \E i \in 1..(Len(payload) - 1) :
                        payload[i] = "userId" /\ payload[i + 1] = context["userId"].s

\* C9: at every level, when data is an Error, or an object with an Error
\* under `error`, the payload ends with a newline and that error's stack
\* (its message when it has no stack).
C9_ErrorStack ==
    (op.kind = "log" /\ Len(writes) = 1) =>
        /\ op.data.t = "error" =>
                EndsWith(writes[1].line.payload, <<NL, StackOrMessage(op.data)>>)
        /\ WrapsError(op.heap, op.data) =>
                EndsWith(writes[1].line.payload,
                         <<NL, StackOrMessage(op.heap[op.data.n]["error"])>>)

\* The payload block of the data argument at debug, info and warn: the
\* payload after the context block of a debug line
DataBlock ==
    LET payload == writes[1].line.payload
        context == loggers[op.logger]
        skip == IF op.level = "debug" /\ DOMAIN context # {"module"}
                THEN (IF Truthy(Get(context, "userId")) THEN 5 ELSE 3) ELSE 0
    IN  SubSeq(payload, skip + 1, Len(payload))

TwoDigits(n) == <<Digits[(n \div 10) + 1], Digits[(n % 10) + 1]>>
ThreeDigits(n) == <<Digits[(n \div 100) + 1]>> \o TwoDigits(n % 100)

\* C11: every written line carries the timestamp [DD/MM HH:MM:SS.mmm] of the
\* clock's reading: the day of the month first, then the month, then hour,
\* minute, second and millisecond, each zero-padded to its width.
C11_Timestamp ==
    (op.kind = "log" /\ Len(writes) = 1) =>
        writes[1].line.timestamp =
            <<"[">> \o TwoDigits(now.date) \o <<"/">> \o TwoDigits(now.month + 1)
                \o <<" ">> \o TwoDigits(now.hours) \o <<":">> \o TwoDigits(now.minutes)
                \o <<":">> \o TwoDigits(now.seconds) \o <<".">> \o ThreeDigits(now.ms)
                \o <<"]">>

\* a context without its userId key
WithoutUserId(context) == [k \in DOMAIN context \ {"userId"} |-> context[k]]

\* C12: after setUserId(null), and after setUserId with an empty string, the
\* key userId is absent from the logger's context, whatever the context was
\* before; the context is then equal, key for key, to one that never had a
\* user id, so a debug-level line the logger writes renders the same payload
\* as it does for that context.
C12_UserIdRemoved ==
    /\ (op.kind = "setUserId" /\ ~Truthy(op.data)) =>
            "userId" \notin DOMAIN loggers[op.logger]
    /\ \A i \in 1..Len(loggers) :
            (lastSet[i] # Undefined /\ ~Truthy(lastSet[i])) =>
                /\ loggers[i] = WithoutUserId(loggers[i])
                /\ LineOf("debug", loggers[i]).payload
                        = LineOf("debug", WithoutUserId(loggers[i])).payload

\* C13 as claimed: in every reachable state the module of every logger's
\* context is a non-empty string.
C13_AsClaimed ==
    \A i \in 1..Len(loggers) :
        /\ "module" \in DOMAIN loggers[i]
        /\ loggers[i]["module"].t = "string"
        /\ loggers[i]["module"].s # ""

\* C13 amended: in every reachable state every logger's context has a module
\* that is a string, "app" for the default logger, and empty only for a
\* logger made by child() with an empty options.module or descending from
\* one; every line a logger writes shows a non-empty module, the context's
\* when that is non-empty and app when it is empty.
C13_ModuleShown ==
    /\ \A i \in 1..Len(loggers) :
            /\ "module" \in DOMAIN loggers[i]
            /\ loggers[i]["module"].t = "string"
    /\ loggers[1]["module"] = Str("app")
    /\ (op.kind = "child" /\ loggers[op.ret]["module"].s = "") =>
            \/ Get(op.options, "module") = Str("")
            \/ "module" \notin DOMAIN op.options /\ loggers[op.logger]["module"].s = ""
    /\ (op.kind = "log" /\ Len(writes) = 1) =>
            /\ writes[1].line.module # ""
            /\ writes[1].line.module =
                    IF loggers[op.logger]["module"].s # ""
                    THEN loggers[op.logger]["module"].s ELSE "app"

\* two child loggers whose context module is empty; the later one has
\* written a line, under [app]
C13_Witness ==
    /\ op.kind = "log" /\ Len(writes) = 1 /\ op.logger = 3
    /\ loggers[2]["module"] = Str("")
    /\ loggers[3]["module"] = Str("")
    /\ writes[1].line.module = "app"

====
